---- MODULE Spec2Model ----
(***************************************************************************)
(* Loan Stress Monitor: the scoring core of streamlit_dashboard_enhanced.py *)
(* (load_data, calc_risk, the category lambda) and the script's analysis    *)
(* section (filters, aggregate score, "no data" warning).                   *)
(*                                                                         *)
(* Numbers.  pandas columns hold floats; a column value is modelled as an   *)
(* exact fraction num/den (den > 0, lowest terms) or one of the IEEE specials the float   *)
(* division can produce: +inf, -inf, NaN.  Comparisons against the integer  *)
(* band thresholds are made by cross multiplication, so no rounding enters. *)
(* Gross_NPA and Net_NPA literals have two decimals and are kept in         *)
(* hundredths (7.39 is 739/100).                                           *)
(***************************************************************************)
EXTENDS Integers, Sequences, FiniteSets, TLC

VARIABLES
    data,               \* the literal list of raw records inside load_data
    cache,              \* st.cache_data store for load_data
    df,                 \* module-level df of the current script run
    started,            \* the session has run the script at least once
    session_state,      \* keys of st.session_state
    selected_bank, selected_year, selected_category,   \* the three selectboxes
    analyze_clicked,    \* value of st.button on the current run
    filtered_df,        \* the filtered copy built by the analysis section
    avg_risk,           \* filtered_df['Risk_Score'].mean()
    risk_cat,           \* category of avg_risk
    shown_score,        \* number printed by the f-string {avg_risk:.0f}
    rendered,           \* which blocks of the analysis section were drawn
    row,                \* one row handed to calc_risk
    score,              \* value returned by calc_risk / handed to the lambda
    category,           \* value returned by the category lambda
    op                  \* last operation applied to row/score

vars == <<data, cache, df, started, session_state, selected_bank, selected_year,
          selected_category, analyze_clicked, filtered_df, avg_risk, risk_cat,
          shown_score, rendered, row, score, category, op>>

dashVars == <<cache, df, started, session_state, selected_bank, selected_year,
              selected_category, analyze_clicked, filtered_df, avg_risk, risk_cat,
              shown_score, rendered>>

unitVars == <<row, score, category, op>>

----------------------------------------------------------------------------
(* Column values *)

RECURSIVE GCD(_, _)
GCD(a, b) == IF b = 0 THEN a ELSE GCD(b, a % b)

Abs(n) == IF n < 0 THEN -n ELSE n

\* the finite value n/d (d > 0), kept in lowest terms
Num(n, d) ==
    LET g == GCD(Abs(n), d)
    IN  [kind |-> "num", num |-> n \div g, den |-> d \div g]

NaN == [kind |-> "nan", num |-> 0, den |-> 1]

PosInf == [kind |-> "inf", num |-> 1, den |-> 1]

NegInf == [kind |-> "ninf", num |-> -1, den |-> 1]

\* a name not bound in the current run (Python would raise NameError on use)
Unbound == [kind |-> "unbound", num |-> 0, den |-> 1]

\* float division of two integer column entries: a / b
Div(a, b) ==
    IF b = 0
    THEN (IF a > 0 THEN PosInf ELSE IF a < 0 THEN NegInf ELSE NaN)
    ELSE IF b > 0 THEN Num(a, b) ELSE Num(-a, -b)

\* the ratio left as a fraction, not scaled to a percentage
Times100_unscaled(v) == v

\* v * 100
Times100(v) == IF v.kind = "num" THEN Num(v.num * 100, v.den) ELSE v

\* v - 1
Minus1(v) == IF v.kind = "num" THEN Num(v.num - v.den, v.den) ELSE v

\* v > t, v < t, v >= t for an integer t; every comparison with NaN is False
GT(v, t) ==
    CASE v.kind = "num" -> v.num > t * v.den
      [] v.kind = "inf" -> TRUE
      [] OTHER -> FALSE

LT(v, t) ==
    CASE v.kind = "num" -> v.num < t * v.den
      [] v.kind = "ninf" -> TRUE
      [] OTHER -> FALSE

GE(v, t) ==
    CASE v.kind = "num" -> v.num >= t * v.den
      [] v.kind = "inf" -> TRUE
      [] OTHER -> FALSE

\* pd.notna
notna(v) == v.kind # "nan"

----------------------------------------------------------------------------
(* The embedded dataset *)

Rec(bank, cat, year, adv, dep, gnpa, nnpa, bor, ta, np, ii) ==
    [Bank |-> bank, Category |-> cat, Year |-> year, Advances |-> adv,
     Deposits |-> dep, Gross_NPA |-> Num(gnpa, 100), Net_NPA |-> Num(nnpa, 100),
     Borrowings |-> bor, Total_Assets |-> ta, Net_Profit |-> np,
     Interest_Income |-> ii]

EmbeddedData == <<
    Rec("YES Bank", "Stressed", "FY2017", 157000, 174000, 31, 20, 18000, 236000, 3260, 11500),
    Rec("YES Bank", "Stressed", "FY2018", 195000, 209000, 131, 60, 25000, 294000, 3453, 14800),
    Rec("YES Bank", "Stressed", "FY2019", 241000, 200000, 739, 435, 45000, 350000, -18564, 16200),
    Rec("DHFL", "Stressed", "FY2017", 80000, 42000, 58, 40, 45000, 105000, 1250, 7800),
    Rec("DHFL", "Stressed", "FY2018", 105000, 45000, 124, 82, 68000, 130000, 982, 9500),
    Rec("DHFL", "Stressed", "FY2019", 116000, 38000, 415, 265, 82000, 140000, -2223, 10200),
    Rec("IDBI Bank", "Stressed", "FY2017", 165000, 185000, 1650, 825, 28000, 290000, -5663, 15200),
    Rec("IDBI Bank", "Stressed", "FY2018", 155000, 175000, 2795, 1570, 32000, 285000, -8238, 14500),
    Rec("IDBI Bank", "Stressed", "FY2019", 148000, 170000, 2838, 1495, 30000, 275000, -4106, 13800),
    Rec("HDFC Bank", "Healthy", "FY2017", 590000, 840000, 100, 40, 12000, 1080000, 14549, 52800),
    Rec("HDFC Bank", "Healthy", "FY2018", 710000, 975000, 130, 40, 14000, 1240000, 17486, 61500),
    Rec("HDFC Bank", "Healthy", "FY2019", 856000, 1140000, 136, 41, 15000, 1445000, 21078, 70800),
    Rec("ICICI Bank", "Healthy", "FY2017", 445000, 562000, 782, 489, 42000, 785000, 8575, 39800),
    Rec("ICICI Bank", "Healthy", "FY2018", 512395, 615000, 654, 395, 45000, 850000, 9624, 44200),
    Rec("ICICI Bank", "Healthy", "FY2019", 586647, 685000, 595, 295, 48000, 945000, 12402, 48900),
    Rec("Kotak Bank", "Healthy", "FY2017", 135000, 185000, 215, 105, 8500, 240000, 3325, 12400),
    Rec("Kotak Bank", "Healthy", "FY2018", 165000, 220000, 218, 112, 9800, 285000, 4185, 14800),
    Rec("Kotak Bank", "Healthy", "FY2019", 198000, 258000, 253, 118, 11000, 335000, 4858, 17200),
    Rec("SBI", "Healthy", "FY2017", 1795000, 2635000, 690, 371, 185000, 3200000, 10485, 185000),
    Rec("SBI", "Healthy", "FY2018", 1940000, 2890000, 1091, 573, 205000, 3580000, -6547, 198000),
    Rec("SBI", "Healthy", "FY2019", 2075000, 3085000, 753, 301, 195000, 3820000, 862, 210000),
    Rec("Axis Bank", "Healthy", "FY2017", 385000, 480000, 486, 261, 32000, 650000, 6068, 36500),
    Rec("Axis Bank", "Healthy", "FY2018", 445000, 535000, 528, 277, 38000, 735000, 3679, 41200),
    Rec("Axis Bank", "Healthy", "FY2019", 515000, 605000, 526, 213, 42000, 825000, 5251, 46800)
>>

\* Python's string order on the bank names and year labels of the dataset
BankOrder == <<"Axis Bank", "DHFL", "HDFC Bank", "ICICI Bank", "IDBI Bank",
               "Kotak Bank", "SBI", "YES Bank">>

YearOrder == <<"FY2017", "FY2018", "FY2019">>

Rank(order, s) == CHOOSE i \in 1..Len(order) : order[i] = s

\* r sorts strictly before q under the key ['Bank', 'Year']
KeyLess(r, q) ==
    \/ Rank(BankOrder, r.Bank) < Rank(BankOrder, q.Bank)
    \/ /\ r.Bank = q.Bank
       /\ Rank(YearOrder, r.Year) < Rank(YearOrder, q.Year)

----------------------------------------------------------------------------
(* load_data *)

\* the four forensic ratio columns
WithRatios(r) ==
    [Bank |-> r.Bank, Category |-> r.Category, Year |-> r.Year,
     Advances |-> r.Advances, Deposits |-> r.Deposits,
     Gross_NPA |-> r.Gross_NPA, Net_NPA |-> r.Net_NPA,
     Borrowings |-> r.Borrowings, Total_Assets |-> r.Total_Assets,
     Net_Profit |-> Num(r.Net_Profit, 1), Interest_Income |-> r.Interest_Income,
     LDR |-> Times100(Div(r.Advances, r.Deposits)),
     AD_Gap_Pct |-> Times100(Div(r.Advances - r.Deposits, r.Deposits)),
     Borrowing_Ratio |-> Times100(Div(r.Borrowings, r.Total_Assets)),
     Profit_Margin |-> Times100(Div(r.Net_Profit, r.Interest_Income))]

RECURSIVE InsertSorted(_, _)
InsertSorted(r, s) ==
    IF s = <<>> THEN <<r>>
    ELSE IF KeyLess(r, Head(s)) THEN <<r>> \o s
    ELSE <<Head(s)>> \o InsertSorted(r, Tail(s))

\* df.sort_values(['Bank', 'Year']): stable, ascending
RECURSIVE sort_values(_)
sort_values(d) ==
    IF d = <<>> THEN <<>>
    ELSE InsertSorted(d[Len(d)], sort_values(SubSeq(d, 1, Len(d) - 1)))

\* plain Series.pct_change(): the previous row of the frame, whatever its bank
PrevInFrame(d, i) == i - 1

\* index of the previous row of the same Bank group in d, 0 if i is the
\* group's first row
PrevInGroup(d, i) ==
    LET same == {j \in 1..(i - 1) : d[j].Bank = d[i].Bank}
    IN  IF same = {} THEN 0 ELSE CHOOSE j \in same : \A k \in same : k <= j

\* df.groupby('Bank')['Advances'].pct_change() * 100, for row i
Loan_Growth_Pct(d, i) ==
    LET j == PrevInGroup(d, i)
    IN  IF j = 0 THEN NaN
        ELSE Times100(Minus1(Div(d[i].Advances, d[j].Advances)))

----------------------------------------------------------------------------
(* calc_risk: one if/elif chain per metric, each adding to score *)

\* three independent ifs in place of the if/elif chain
NPA_CumulativeStep(s, r) ==
    s + (IF GT(r.Gross_NPA, 10) THEN 30 ELSE 0)
      + (IF GT(r.Gross_NPA, 5) THEN 20 ELSE 0)
      + (IF GT(r.Gross_NPA, 2) THEN 10 ELSE 0)

NPA_Step(s, r) ==
    IF GT(r.Gross_NPA, 10) THEN s + 30
    ELSE IF GT(r.Gross_NPA, 5) THEN s + 20
    ELSE IF GT(r.Gross_NPA, 2) THEN s + 10
    ELSE s

\* the three point values attached to the wrong thresholds
LDR_ReversedStep(s, r) ==
    IF GT(r.LDR, 110) THEN s + 5
    ELSE IF GT(r.LDR, 95) THEN s + 15
    ELSE IF GT(r.LDR, 85) THEN s + 25
    ELSE s

LDR_Step(s, r) ==
    IF GT(r.LDR, 110) THEN s + 25
    ELSE IF GT(r.LDR, 95) THEN s + 15
    ELSE IF GT(r.LDR, 85) THEN s + 5
    ELSE s

Borrowing_Step(s, r) ==
    IF GT(r.Borrowing_Ratio, 15) THEN s + 20
    ELSE IF GT(r.Borrowing_Ratio, 10) THEN s + 12
    ELSE IF GT(r.Borrowing_Ratio, 5) THEN s + 5
    ELSE s

\* score -= 15 in place of score += 15 on a loss
Profit_SignSlipStep(s, r) ==
    IF LT(r.Net_Profit, 0) THEN s - 15
    ELSE IF LT(r.Profit_Margin, 5) THEN s + 10
    ELSE IF LT(r.Profit_Margin, 15) THEN s + 5
    ELSE s

Profit_Step(s, r) ==
    IF LT(r.Net_Profit, 0) THEN s + 15
    ELSE IF LT(r.Profit_Margin, 5) THEN s + 10
    ELSE IF LT(r.Profit_Margin, 15) THEN s + 5
    ELSE s

Growth_Step(s, r) ==
    IF notna(r.Loan_Growth_Pct)
    THEN (IF GT(r.Loan_Growth_Pct, 35) THEN s + 10
          ELSE IF GT(r.Loan_Growth_Pct, 25) THEN s + 6
          ELSE IF GT(r.Loan_Growth_Pct, 15) THEN s + 3
          ELSE s)
    ELSE s

MaxScore == 100

min(a, b) == IF a < b THEN a ELSE b

calc_risk(r) ==
    min(Growth_Step(Profit_Step(Borrowing_Step(LDR_Step(NPA_Step(0, r), r), r), r), r),
        MaxScore)

\* lambda x: 'HIGH RISK' if x > 70 else ('MEDIUM RISK' if x > 40 else 'LOW RISK')
risk_category_exclusive(x) ==
    IF x > 70 THEN "HIGH RISK" ELSE IF x > 40 THEN "MEDIUM RISK" ELSE "LOW RISK"

\* lambda x: 'HIGH RISK' if x >= 70 else ('MEDIUM RISK' if x >= 40 else 'LOW RISK')
risk_category(x) ==
    IF x >= 70 THEN "HIGH RISK" ELSE IF x >= 40 THEN "MEDIUM RISK" ELSE "LOW RISK"

\* adds the Loan_Growth_Pct, Risk_Score and Risk_Category columns to row i of
\* the sorted frame d
Scored(d, i) ==
    LET g == [Loan_Growth_Pct |-> Loan_Growth_Pct(d, i)] @@ d[i]
        s == [Risk_Score |-> calc_risk(g)] @@ g
    IN  [Risk_Category |-> risk_category(s.Risk_Score)] @@ s

load_data(raw) ==
    LET ratios == [i \in 1..Len(raw) |-> WithRatios(raw[i])]
        sorted == sort_values(ratios)
    IN  [i \in 1..Len(sorted) |-> Scored(sorted, i)]

----------------------------------------------------------------------------
(* The analysis section of the script *)

BankList == <<"All Banks">> \o BankOrder

YearList == <<"All Years">> \o YearOrder

CategoryList == <<"All", "Stressed", "Healthy">>

Range(q) == {q[i] : i \in 1..Len(q)}

\* the three successive boolean-mask selections on the copy of df
Filter(d, b, y, c) ==
    LET byBank == IF b # "All Banks" THEN SelectSeq(d, LAMBDA r : r.Bank = b) ELSE d
        byYear == IF y # "All Years" THEN SelectSeq(byBank, LAMBDA r : r.Year = y)
                  ELSE byBank
    IN  IF c # "All" THEN SelectSeq(byYear, LAMBDA r : r.Category = c) ELSE byYear

RECURSIVE SumScores(_)
SumScores(f) == IF f = <<>> THEN 0 ELSE Head(f).Risk_Score + SumScores(Tail(f))

\* integer division in place of the float mean
mean_floor(f) == IF f = <<>> THEN NaN ELSE Num(SumScores(f) \div Len(f), 1)

\* Series.mean(): sum / count, NaN on an empty series
mean(f) == IF f = <<>> THEN NaN ELSE Num(SumScores(f), Len(f))

\* the inline conditional that classifies avg_risk
agg_category(v) ==
    IF GE(v, 70) THEN "HIGH RISK" ELSE IF GE(v, 40) THEN "MEDIUM RISK" ELSE "LOW RISK"

\* f"{v:.0f}" of a non-negative finite v: nearest integer, ties to even
format_0f(v) ==
    LET q == v.num \div v.den
        m == v.num % v.den
    IN  IF 2 * m < v.den THEN q
        ELSE IF 2 * m > v.den THEN q + 1
        ELSE IF q % 2 = 0 THEN q ELSE q + 1

NotShown == -1

\* len(filtered_df) >= 0
has_rows_always(f) == Len(f) >= 0

\* len(filtered_df) > 0
has_rows(f) == Len(f) > 0

\* blocks drawn inside the non-empty branch
Blocks(b, y) ==
    {"risk_score", "key_metrics", "npa_trend", "ldr_trend", "table"}
      \cup (IF y # "All Years" THEN {"risk_comparison"} ELSE {})
      \cup (IF b \in {"YES Bank", "DHFL", "All Banks"} THEN {"validation"} ELSE {})

\* the frame the script leaves bound to df when a run of the analysis section
\* filters in place instead of on filtered_df
df_filtered_in_place(d, f) == f

\* the frame bound to df at the end of a run: the filters rebind filtered_df
\* only (d is the loaded frame, f the filtered copy)
df_after_run(d, f) == d

\* if analyze_clicked: the flag left by an earlier run is not consulted
show_on_click_only(click, ss) == click

\* if analyze_clicked or 'analyzed' in st.session_state
show_analysis(click, ss) == click \/ "analyzed" \in ss

\* one complete run of the script with the given widget values
Script(b, y, c, click) ==
    LET loaded == IF cache.loaded THEN cache.value ELSE load_data(data)
        show == show_analysis(click, session_state)
        f == Filter(loaded, b, y, c)
        avg == mean(f)
    IN  /\ cache' = [loaded |-> TRUE, value |-> loaded]
        /\ started' = TRUE
        /\ selected_bank' = b
        /\ selected_year' = y
        /\ selected_category' = c
        /\ analyze_clicked' = click
        /\ session_state' = IF show THEN session_state \cup {"analyzed"}
                            ELSE session_state
        /\ filtered_df' = IF show THEN f ELSE <<>>
        /\ df' = IF show THEN df_after_run(loaded, f) ELSE loaded
        /\ IF show /\ has_rows(f)
           THEN /\ avg_risk' = avg
                /\ risk_cat' = agg_category(avg)
                /\ shown_score' = IF avg.kind = "num" THEN format_0f(avg) ELSE NotShown
                /\ rendered' = Blocks(b, y)
           ELSE /\ avg_risk' = Unbound
                /\ risk_cat' = ""
                /\ shown_score' = NotShown
                /\ rendered' = IF show THEN {"warning"} ELSE {}
        /\ UNCHANGED <<data, unitVars>>

\* the first run of a session: every selectbox at its first option, the
\* button not clicked
FirstRun ==
    /\ ~started
    /\ Script(BankList[1], YearList[1], CategoryList[1], FALSE)

SelectBank(b) ==
    /\ started
    /\ b # selected_bank
    /\ Script(b, selected_year, selected_category, FALSE)

SelectYear(y) ==
    /\ started
    /\ y # selected_year
    /\ Script(selected_bank, y, selected_category, FALSE)

SelectCategory(c) ==
    /\ started
    /\ c # selected_category
    /\ Script(selected_bank, selected_year, c, FALSE)

ClickAnalyze ==
    /\ started
    /\ Script(selected_bank, selected_year, selected_category, TRUE)

NoRow == [Gross_NPA |-> NaN, LDR |-> NaN, Borrowing_Ratio |-> NaN,
          Net_Profit |-> NaN, Profit_Margin |-> NaN, Loan_Growth_Pct |-> NaN]

UnitIdle ==
    /\ row = NoRow
    /\ score = NotShown
    /\ category = ""
    /\ op = "none"

DashIdle ==
    /\ cache = [loaded |-> FALSE, value |-> <<>>]
    /\ df = <<>>
    /\ started = FALSE
    /\ session_state = {}
    /\ selected_bank = BankList[1]
    /\ selected_year = YearList[1]
    /\ selected_category = CategoryList[1]
    /\ analyze_clicked = FALSE
    /\ filtered_df = <<>>
    /\ avg_risk = Unbound
    /\ risk_cat = ""
    /\ shown_score = NotShown
    /\ rendered = {}

Init ==
    /\ data = EmbeddedData
    /\ DashIdle
    /\ UnitIdle

Next ==
    \/ FirstRun
    \/ \E b \in Range(BankList) : SelectBank(b)
    \/ \E y \in Range(YearList) : SelectYear(y)
    \/ \E c \in Range(CategoryList) : SelectCategory(c)
    \/ ClickAnalyze

Spec == Init /\ [][Next]_vars

----------------------------------------------------------------------------
(* calc_risk and the category lambda applied to arbitrary rows and scores *)

\* how many hundredths past each band threshold the sampled inputs reach
Spread == 1

\* sample points at and just above each ">" threshold
Above(ths) == {Num(t * 100 + d, 100) : t \in ths, d \in 0..Spread}

\* sample points at and just below each "<" threshold
Below(ths) == {Num(t * 100 - d, 100) : t \in ths, d \in 0..Spread}

ScoringFields == {"Gross_NPA", "LDR", "Borrowing_Ratio", "Net_Profit",
                  "Profit_Margin", "Loan_Growth_Pct"}

RatioFields == ScoringFields \ {"Net_Profit"}

NPA_Samples == Above({2, 5, 10}) \cup {NaN}

LDR_Samples == Above({85, 95, 110}) \cup {NaN}

Borrowing_Samples == Above({5, 10, 15}) \cup {NaN}

Net_Profit_Samples == {Num(-1, 1), Num(0, 1), NaN}

Margin_Samples == Below({5, 15}) \cup {NaN}

Growth_Samples == Above({15, 25, 35}) \cup {NaN}

Samples(f) ==
    CASE f = "Gross_NPA" -> NPA_Samples
      [] f = "LDR" -> LDR_Samples
      [] f = "Borrowing_Ratio" -> Borrowing_Samples
      [] f = "Net_Profit" -> Net_Profit_Samples
      [] f = "Profit_Margin" -> Margin_Samples
      [] f = "Loan_Growth_Pct" -> Growth_Samples

\* the six columns calc_risk reads
ScoringInputs(r) == [f \in ScoringFields |-> r[f]]

SampleRows ==
    [Gross_NPA : NPA_Samples, LDR : LDR_Samples, Borrowing_Ratio : Borrowing_Samples,
     Net_Profit : Net_Profit_Samples, Profit_Margin : Margin_Samples,
     Loan_Growth_Pct : Growth_Samples]

DatasetRows == {ScoringInputs(r) : r \in Range(load_data(EmbeddedData))}

\* a < b for two finite column values
Less(a, b) == a.kind = "num" /\ b.kind = "num" /\ a.num * b.den < b.num * a.den

\* df.apply(calc_risk, axis=1) and the lambda, on the one row r
ApplyCalcRisk(r) ==
    /\ op = "none"
    /\ row' = r
    /\ score' = calc_risk(r)
    /\ category' = risk_category(score')
    /\ op' = "calc_risk"
    /\ UNCHANGED <<data, dashVars>>

\* the sample points of column f above the value v
Higher(f, v) == {w \in Samples(f) : Less(v, w)}

\* the same row with the ratio f raised to the next sample point, scored
\* again (any larger increase is a chain of these)
Increase(f) ==
    LET higher == Higher(f, row[f])
    IN  /\ op \in {"calc_risk", "increase"}
        /\ higher # {}
        /\ LET v == CHOOSE w \in higher : \A u \in higher : ~Less(u, w)
           IN  row' = [row EXCEPT ![f] = v]
        /\ score' = calc_risk(row')
        /\ category' = risk_category(score')
        /\ op' = "increase"
        /\ UNCHANGED <<data, dashVars>>

\* the lambda on an arbitrary score
ClassifyScore(x) ==
    /\ op \in {"none", "classify"}
    /\ row = NoRow
    /\ row' = NoRow
    /\ score' = x
    /\ category' = risk_category(x)
    /\ op' = "classify"
    /\ UNCHANGED <<data, dashVars>>

InitCalc ==
    /\ data = <<>>
    /\ DashIdle
    /\ UnitIdle

NextCalc ==
    \/ op = "none" /\ \E r \in SampleRows \cup DatasetRows : ApplyCalcRisk(r)
    \/ \E f \in RatioFields : Increase(f)
    \/ row = NoRow /\ \E x \in 0..MaxScore : ClassifyScore(x)

SpecCalc == InitCalc /\ [][NextCalc]_vars

----------------------------------------------------------------------------
(* The script run on a dataset in which one record has zero fields *)

ZeroableFields == {"Advances", "Deposits", "Total_Assets", "Interest_Income"}

\* the embedded dataset with the fields fs of record i set to 0
Zeroed(i, fs) ==
    [EmbeddedData EXCEPT ![i] = [f \in DOMAIN @ |-> IF f \in fs THEN 0 ELSE @[f]]]

InitRaw ==
    /\ data \in {Zeroed(i, fs) : i \in 1..Len(EmbeddedData), fs \in SUBSET ZeroableFields}
    /\ DashIdle
    /\ UnitIdle

NextRaw ==
    \/ FirstRun
    \/ ClickAnalyze

SpecRaw == InitRaw /\ [][NextRaw]_vars

----------------------------------------------------------------------------
(* Properties *)

Scored_op == op \in {"calc_risk", "increase"}

\* C1: whatever the six scoring inputs of a row are (finite or absent, the 24
\* rows of the embedded dataset included), the value calc_risk returns is an
\* integer between 0 and 100.
C1_ScoreRange == Scored_op => score \in 0..100

C1_Witness == op = "calc_risk" /\ score = 100 /\ LT(row.Net_Profit, 0)

\* the band table of the specification, one contribution per metric
NPA_Points(v) ==
    CASE GT(v, 10) -> 30
      [] GT(v, 5) /\ ~GT(v, 10) -> 20
      [] GT(v, 2) /\ ~GT(v, 5) -> 10
      [] OTHER -> 0

LDR_Points(v) ==
    CASE GT(v, 110) -> 25
      [] GT(v, 95) /\ ~GT(v, 110) -> 15
      [] GT(v, 85) /\ ~GT(v, 95) -> 5
      [] OTHER -> 0

Borrowing_Points(v) ==
    CASE GT(v, 15) -> 20
      [] GT(v, 10) /\ ~GT(v, 15) -> 12
      [] GT(v, 5) /\ ~GT(v, 10) -> 5
      [] OTHER -> 0

Profit_Points(np, pm) ==
    CASE LT(np, 0) -> 15
      [] ~LT(np, 0) /\ LT(pm, 5) -> 10
      [] ~LT(np, 0) /\ ~LT(pm, 5) /\ LT(pm, 15) -> 5
      [] OTHER -> 0

Growth_Points(v) ==
    CASE v = NaN -> 0
      [] GT(v, 35) -> 10
      [] GT(v, 25) /\ ~GT(v, 35) -> 6
      [] GT(v, 15) /\ ~GT(v, 25) -> 3
      [] OTHER -> 0

FourBands(r) ==
    NPA_Points(r.Gross_NPA) + LDR_Points(r.LDR) + Borrowing_Points(r.Borrowing_Ratio)
      + Profit_Points(r.Net_Profit, r.Profit_Margin)

\* C2: the score is the sum of exactly one band value per metric, the first
\* matching band of each chain (Gross NPA 30/20/10/0, LDR 25/15/5/0, borrowing
\* ratio 20/12/5/0, profit 15/10/5/0, loan growth 10/6/3/0 and only if defined).
C2_OneBandPerMetric ==
    Scored_op => score = FourBands(row) + Growth_Points(row.Loan_Growth_Pct)

C2_Witness ==
    /\ op = "calc_risk"
    /\ GT(row.Gross_NPA, 10)
    /\ row.LDR = NaN /\ row.Borrowing_Ratio = NaN /\ row.Loan_Growth_Pct = NaN
    /\ row.Net_Profit = NaN /\ row.Profit_Margin = NaN
    /\ score = 30

\* C3: the category of a score is HIGH RISK from 70 up, MEDIUM RISK from 40 to
\* 69 and LOW RISK below 40, for every score the lambda is handed and for the
\* score of every scored row.
C3_Classification ==
    op # "none" =>
        /\ score >= 70 => category = "HIGH RISK"
        /\ (score >= 40 /\ score < 70) => category = "MEDIUM RISK"
        /\ score < 40 => category = "LOW RISK"

C3_Witness == op = "classify" /\ score = 70 /\ category = "HIGH RISK"

\* C4 as stated: raising any single ratio, the others fixed, never lowers the
\* score.
C4_Monotone_AnyRatio == [][op' = "increase" => score' >= score]_vars

\* C4 amended: raising Gross NPA, LDR, the borrowing ratio or loan growth never
\* lowers the score, and raising the profit margin never raises it.
C4_Monotone_Amended ==
    [][op' = "increase" =>
          IF row'.Profit_Margin # row.Profit_Margin
          THEN score' <= score
          ELSE score' >= score]_vars

C4_Witness == op = "increase" /\ score = 100 /\ GT(row.LDR, 110)

\* the raw records of the same bank as r with an earlier fiscal year
EarlierYears(r) ==
    {q \in Range(data) :
        q.Bank = r.Bank /\ Rank(YearOrder, q.Year) < Rank(YearOrder, r.Year)}

\* the latest of a non-empty set of records of one bank
Latest(qs) ==
    CHOOSE q \in qs : \A p \in qs : Rank(YearOrder, p.Year) <= Rank(YearOrder, q.Year)

\* C5: in the scored dataset every bank's earliest year has no Loan_Growth_Pct
\* and scores from the other four metrics alone; every later year has the
\* percent change of Advances against the preceding year of the same bank.
C5_LoanGrowth ==
    cache.loaded =>
        \A i \in 1..Len(df) :
            LET r == df[i]
                earlier == EarlierYears(r)
            IN  IF earlier = {}
                THEN r.Loan_Growth_Pct = NaN /\ r.Risk_Score = FourBands(r)
                ELSE LET p == Latest(earlier)
                     IN  /\ p.Advances > 0
                         /\ r.Loan_Growth_Pct =
                                Num((r.Advances - p.Advances) * 100, p.Advances)

\* the first DHFL row follows the last Axis Bank row in the sorted frame
C5_Witness ==
    /\ cache.loaded
    /\ \E i \in 2..Len(df) :
          /\ df[i].Bank = "DHFL" /\ df[i].Year = "FY2017"
          /\ df[i - 1].Bank = "Axis Bank"
          /\ df[i].Loan_Growth_Pct = NaN
          /\ df[i + 1].Loan_Growth_Pct = Num(125, 4)

\* the rows of df the three selectbox values select
Selected ==
    {i \in 1..Len(df) :
        /\ selected_bank = "All Banks" \/ df[i].Bank = selected_bank
        /\ selected_year = "All Years" \/ df[i].Year = selected_year
        /\ selected_category = "All" \/ df[i].Category = selected_category}

RECURSIVE ScoreTotal(_)
ScoreTotal(S) ==
    IF S = {} THEN 0
    ELSE LET i == CHOOSE j \in S : TRUE
         IN  df[i].Risk_Score + ScoreTotal(S \ {i})

\* the analysis section ran on the last script run
Analysed == started /\ "analyzed" \in session_state

IsFinite(v) == v.kind = "num"

C8_EmptySelection ==
    Analysed =>
        IF Selected = {}
        THEN /\ rendered = {"warning"}
             /\ avg_risk = Unbound /\ risk_cat = "" /\ shown_score = NotShown
        ELSE /\ "risk_score" \in rendered
             /\ "warning" \notin rendered
             /\ shown_score # NotShown

C8_Witness ==
    /\ Analysed
    /\ selected_bank = "YES Bank" /\ selected_category = "Healthy"
    /\ rendered = {"warning"}

\* C9: once the dataset is loaded, no script run changes it: the frame bound
\* to df and the cached frame stay the same, whatever is selected or clicked.
C9_DatasetUnchanged ==
    [][cache.loaded => (df' = df /\ cache' = cache)]_vars

C9_Witness ==
    /\ Analysed
    /\ selected_bank = "YES Bank"
    /\ Len(filtered_df) = 3
    /\ Len(df) = 24
    /\ df = cache.value

\* C10: the YES Bank FY2019 record scores 20 + 25 + 12 + 15 + 3 = 75 and is
\* HIGH RISK (Gross NPA 7.39, LDR 120.5, borrowing ratio 90/7, net profit
\* negative, loan growth 920/39 per cent against YES Bank FY2018).
C10_YesBank2019 ==
    cache.loaded =>
        \E i \in 1..Len(df) :
            LET r == df[i]
            IN  /\ r.Bank = "YES Bank" /\ r.Year = "FY2019"
                /\ r.Gross_NPA = Num(739, 100) /\ NPA_Points(r.Gross_NPA) = 20
                /\ r.LDR = Num(241, 2) /\ LDR_Points(r.LDR) = 25
                /\ r.Borrowing_Ratio = Num(90, 7)
                /\ Borrowing_Points(r.Borrowing_Ratio) = 12
                /\ LT(r.Net_Profit, 0)
                /\ Profit_Points(r.Net_Profit, r.Profit_Margin) = 15
                /\ r.Loan_Growth_Pct = Num(920, 39)
                /\ Growth_Points(r.Loan_Growth_Pct) = 3
                /\ r.Risk_Score = 75
                /\ r.Risk_Category = "HIGH RISK"

C10_Witness ==
    /\ Analysed
    /\ selected_bank = "YES Bank" /\ selected_year = "FY2019"
    /\ Len(filtered_df) = 1
    /\ filtered_df[1].Risk_Score = 75
    /\ shown_score = 75
    /\ risk_cat = "HIGH RISK"

\* the Risk_Category of the scored row of bank b and year y
CategoryOf(b, y) ==
    LET i == CHOOSE j \in 1..Len(df) : df[j].Bank = b /\ df[j].Year = y
    IN  df[i].Risk_Category

ScoreOf(b, y) ==
    LET i == CHOOSE j \in 1..Len(df) : df[j].Bank = b /\ df[j].Year = y
    IN  df[i].Risk_Score

\* C11: the two validation call-outs hold of the scored dataset: YES Bank
\* FY2019 and DHFL FY2019 are HIGH RISK with a score of at least 70, and
\* neither bank's FY2017 or FY2018 record is HIGH RISK.
C11_ValidationCallouts ==
    cache.loaded =>
        \A b \in {"YES Bank", "DHFL"} :
            /\ CategoryOf(b, "FY2019") = "HIGH RISK"
            /\ ScoreOf(b, "FY2019") >= 70
            /\ CategoryOf(b, "FY2017") # "HIGH RISK"
            /\ CategoryOf(b, "FY2018") # "HIGH RISK"

\* the validation block is drawn and DHFL FY2019 sits exactly on the boundary
C11_Witness ==
    /\ Analysed
    /\ "validation" \in rendered
    /\ selected_bank = "DHFL"
    /\ ScoreOf("DHFL", "FY2019") = 70
    /\ ScoreOf("YES Bank", "FY2019") = 75

\* C12: no analysis is drawn before the first click; on every script run the
\* analysis section (aggregate score or warning) is drawn exactly if the
\* button was clicked on that run or the 'analyzed' flag was left by an
\* earlier run; the flag is set by exactly those runs and never cleared.
C12_AnalysisAfterClick ==
    /\ (rendered = {} /\ "analyzed" \notin session_state)
    /\ [][/\ (rendered' # {}) <=> (analyze_clicked' \/ "analyzed" \in session_state)
          /\ ("analyzed" \in session_state')
                <=> (analyze_clicked' \/ "analyzed" \in session_state)
          /\ "analyzed" \in session_state => "analyzed" \in session_state']_vars

\* a filter change after an earlier click: the analysis is drawn again
\* without a new click
C12_Witness ==
    /\ started
    /\ ~analyze_clicked
    /\ "analyzed" \in session_state
    /\ selected_year = "FY2018"
    /\ "risk_score" \in rendered
====
